---- MODULE Spec2Model ----
(***************************************************************************)
(* grecent: ranking of the local branches of a git repository by recent    *)
(* activity (main.go) and the interactive session on top of it (tui.go).   *)
(*                                                                         *)
(* Strings that the code inspects character by character (branch names,    *)
(* search text) are sequences of code points; a time.Time is a natural     *)
(* number (an instant), 0 being the zero time.Time{}.                      *)
(***************************************************************************)
EXTENDS Integers, Sequences, FiniteSets, TLC

\* ------------------------------------------------------------------ bounds

\* Instants range over 1..MaxTime; MaxTime is also "now".
MaxTime == 3

\* Ages are taken around the first MaxCount multiples of each unit.
MaxCount == 4

\* ------------------------------------------------------- strings and names

\* Code points are numbered in the order of their bytes:
\* 1 "A" < 2 "B" < 3 "a" < 4 "b".

\* The branch names of the model: "ab", "Ba", "b".
BranchNames == {<<3, 4>>, <<2, 3>>, <<4>>}

\* getCurrentBranch returns "" for a detached HEAD.
NoBranch == <<>>

\* Go's < on strings: bytewise lexicographic order.
RECURSIVE StrLess(_, _)
StrLess(a, b) ==
    IF b = <<>> THEN FALSE
    ELSE IF a = <<>> THEN TRUE
    ELSE IF Head(a) # Head(b) THEN Head(a) < Head(b)
    ELSE StrLess(Tail(a), Tail(b))

\* ------------------------------------------------------------ variables

VARIABLES
    \* the repository, as the git commands see it
    heads,      \* local branches: name -> [objectname, committerdate, reflog, upstream]
    HEAD,       \* the checked-out branch, NoBranch when detached
    remotes,    \* refs/remotes: short ref name -> committer date of its tip
    \* the fields of the bubbletea model (tui.go, type model)
    branches, filtered, cursor, search, status, sortBy, sortDesc,
    confirming, action,
    \* the program around the model
    running,    \* FALSE once tea.Quit was returned
    cmds,       \* commands in flight: kind -> how many
    target,     \* the string readLine's pointer refers to (*target)
    calls,      \* the git commands run by the last call of Update, in order
    \* the rendering of one age (main.go, humanizeTime)
    since,      \* time.Since(t), in whole seconds
    label       \* the string humanizeTime returned for it

gitVars == <<heads, HEAD, remotes>>
modelVars == <<branches, filtered, cursor, search, status, sortBy, sortDesc,
               confirming, action>>
ageVars == <<since, label>>
vars == <<heads, HEAD, remotes, branches, filtered, cursor, search, status,
          sortBy, sortDesc, confirming, action, running, cmds, target,
          calls, since, label>>

\* ----------------------------------------------------------- the git gateway

\* %(upstream) of a branch: "" (no upstream), or the tracked ref, printed
\* in full ("refs/remotes/origin/b") or short ("origin/b").
NoUpstream == <<>>
UpstreamFull == <<"refs", "remotes", "origin", "b">>
UpstreamShort == <<"origin", "b">>
UpstreamRaws == {NoUpstream, UpstreamFull, UpstreamShort}

\* refs/remotes as the repository may hold it: origin/b absent, or present
\* with a tip date.
NoRemotes == [r \in {} |-> 0]
RemoteStates ==
    {NoRemotes} \cup {[r \in {UpstreamShort} |-> t] : t \in 1..MaxTime}

\* git for-each-ref --sort=-committerdate refs/heads: the names of hs, latest
\* committer date first, equal dates by refname.
RECURSIVE ForEachRef(_)
ForEachRef(hs) ==
    IF DOMAIN hs = {} THEN <<>>
    ELSE LET first == CHOOSE n \in DOMAIN hs : \A o \in DOMAIN hs \ {n} :
                          \/ hs[n].committerdate > hs[o].committerdate
                          \/ /\ hs[n].committerdate = hs[o].committerdate
                             /\ StrLess(n, o)
             rest == [o \in DOMAIN hs \ {first} |-> hs[o]]
         IN <<first>> \o ForEachRef(rest)

\* --------------------------------------------------------- Recency Engine

\* strings.HasPrefix(us, "refs/remotes/") then TrimPrefix, else us as it is.
normalizeUpstream(us) ==
    IF Len(us) >= 2 /\ us[1] = "refs" /\ us[2] = "remotes"
    THEN SubSeq(us, 3, Len(us))
    ELSE us

\* (time, ok): ok is FALSE when the reflog of the branch has no entry.
getBranchReflogLatestTime(hs, name) ==
    IF hs[name].reflog = 0
    THEN [t |-> 0, ok |-> FALSE]
    ELSE [t |-> hs[name].reflog, ok |-> TRUE]

\* A mutant of ActivityTime: the upstream date replaces the time whenever
\* it is known, without the After comparison.
ActivityTimeLastWins(commitTime, reflog, upstreamShort, remoteTimes) ==
    LET t1 == IF reflog.ok /\ reflog.t > commitTime THEN reflog.t
              ELSE commitTime
    IN IF upstreamShort # <<>> /\ upstreamShort \in DOMAIN remoteTimes
       THEN remoteTimes[upstreamShort]
       ELSE t1

\* The computed CommitTime of one branch: the committer date, replaced by the
\* reflog time and then by the upstream tip time when each is known and After.
ActivityTime(commitTime, reflog, upstreamShort, remoteTimes) ==
    LET t1 == IF reflog.ok /\ reflog.t > commitTime THEN reflog.t
              ELSE commitTime
    IN IF /\ upstreamShort # <<>>
          /\ upstreamShort \in DOMAIN remoteTimes
          /\ remoteTimes[upstreamShort] > t1
       THEN remoteTimes[upstreamShort]
       ELSE t1

\* The Branch appended for one line of for-each-ref.
MakeBranch(hs, cur, rts, name) ==
    LET upstreamShort == normalizeUpstream(hs[name].upstream)
    IN [Name        |-> name,
        CommitHash  |-> hs[name].objectname,
        CommitTime  |-> ActivityTime(hs[name].committerdate,
                                     getBranchReflogLatestTime(hs, name),
                                     upstreamShort, rts),
        IsCurrent   |-> name = cur,
        HasUpstream |-> upstreamShort # <<>>]

\* The less functions handed to sort.SliceStable, by name:
\*   "after"  a.CommitTime.After(b.CommitTime)    "before"  ...Before(...)
\*   "name<"  a.Name < b.Name                      "name>"   a.Name > b.Name
Less(by, a, b) ==
    CASE by = "after"  -> a.CommitTime > b.CommitTime
      [] by = "before" -> a.CommitTime < b.CommitTime
      [] by = "name<"  -> StrLess(a.Name, b.Name)
      [] by = "name>"  -> StrLess(b.Name, a.Name)

\* A mutant of InsertStable: x goes before the elements it ties with.
InsertBeforeTies(s, x, by) ==
    LET after == {i \in 1..Len(s) : ~Less(by, s[i], x)}
        p == IF after = {} THEN Len(s) + 1
             ELSE CHOOSE i \in after : \A j \in after : i <= j
    IN SubSeq(s, 1, p - 1) \o <<x>> \o SubSeq(s, p, Len(s))

\* x inserted into the sorted s before the first element it is less than:
\* after every element it ties with.
InsertStable(s, x, by) ==
    LET after == {i \in 1..Len(s) : Less(by, x, s[i])}
        p == IF after = {} THEN Len(s) + 1
             ELSE CHOOSE i \in after : \A j \in after : i <= j
    IN SubSeq(s, 1, p - 1) \o <<x>> \o SubSeq(s, p, Len(s))

\* sort.SliceStable(s, less).
RECURSIVE SliceStable(_, _)
SliceStable(s, by) ==
    IF s = <<>> THEN <<>>
    ELSE InsertStable(SliceStable(SubSeq(s, 1, Len(s) - 1), by), s[Len(s)], by)

\* getRecentBranches when no git command fails: one Branch per line of
\* for-each-ref, then the stable sort by computed time, latest first.
getRecentBranches(hs, cur, rts) ==
    LET lines == ForEachRef(hs)
        listed == [i \in 1..Len(lines) |-> MakeBranch(hs, cur, rts, lines[i])]
    IN SliceStable(listed, "after")

\* One git command run by the session: what, on which branch, and whether it
\* succeeded.
Call(op, name, ok) == [op |-> op, name |-> name, ok |-> ok]

\* A mutant of gitCheckoutBranch: a failed checkout is tried once more.
gitCheckoutBranchRetried(hs, cur, name, r) ==
    LET ok == r /\ name \in DOMAIN hs
    IN [HEAD  |-> IF ok THEN name ELSE cur,
        err   |-> ~ok,
        calls |-> IF ok THEN <<Call("checkout", name, ok)>>
                  ELSE <<Call("checkout", name, ok),
                         Call("checkout", name, ok)>>]

\* git checkout name. r: nothing else (a dirty tree, a lock) makes it fail.
gitCheckoutBranch(hs, cur, name, r) ==
    LET ok == r /\ name \in DOMAIN hs
    IN [HEAD  |-> IF ok THEN name ELSE cur,
        err   |-> ~ok,
        calls |-> <<Call("checkout", name, ok)>>]

\* A mutant of gitDeleteBranch: no forced retry after a failed safe delete.
gitDeleteBranchNoForce(hs, cur, name, r1, r2) ==
    LET ok1 == r1 /\ name \in DOMAIN hs /\ name # cur
    IN [heads |-> IF ok1 THEN [o \in DOMAIN hs \ {name} |-> hs[o]] ELSE hs,
        err   |-> ~ok1,
        calls |-> <<Call("branch -d", name, ok1)>>]

\* git branch -d name and, if that fails, git branch -D name. git deletes
\* neither a missing branch nor the checked-out one; r1 (r2): nothing else
\* (unmerged commits, a lock) makes the safe (forced) delete fail.
gitDeleteBranch(hs, cur, name, r1, r2) ==
    LET deletable == name \in DOMAIN hs /\ name # cur
        ok1 == r1 /\ deletable
        ok2 == r2 /\ deletable
        gone == [o \in DOMAIN hs \ {name} |-> hs[o]]
    IN IF ok1
       THEN [heads |-> gone, err |-> FALSE,
             calls |-> <<Call("branch -d", name, TRUE)>>]
       ELSE [heads |-> IF ok2 THEN gone ELSE hs, err |-> ~ok2,
             calls |-> <<Call("branch -d", name, FALSE),
                         Call("branch -D", name, ok2)>>]

\* git merge name. On success the checked-out branch, if any, gets a merge
\* commit and a reflog entry dated now.
gitMergeIntoCurrent(hs, cur, name, r) ==
    LET ok == r /\ name \in DOMAIN hs
        merged == [hs EXCEPT ![cur] =
                      [objectname |-> MaxTime, committerdate |-> MaxTime,
                       reflog |-> MaxTime, upstream |-> hs[cur].upstream]]
    IN [heads |-> IF ok /\ cur \in DOMAIN hs /\ cur # name THEN merged ELSE hs,
        err   |-> ~ok,
        calls |-> <<Call("merge", name, ok)>>]

\* ------------------------------------------------------------ humanizeTime

\* Seconds in a time.Minute, a time.Hour and 24*time.Hour.
Minute == 60
Hour == 60 * Minute
Day == 24 * Hour

\* A rendered age: the format humanizeTime fills and the number it fills it
\* with (0 for "just now").
Label(text, n) == [text |-> text, n |-> n]

\* No age rendered yet.
NoLabel == Label("", 0)

\* A mutant of humanizeTime: hours and later units are rounded to the
\* nearest, not truncated.
humanizeTimeRounded(d) ==
    IF d < Minute THEN Label("just now", 0)
    ELSE IF d < Hour THEN Label("%dm ago", d \div Minute)
    ELSE IF d < Day THEN Label("%dh ago", (d + Hour \div 2) \div Hour)
    ELSE IF d < 30 * Day THEN Label("%dd ago", (d + Day \div 2) \div Day)
    ELSE IF d < 365 * Day
         THEN LET months == (d + 15 * Day) \div (30 * Day)
              IN IF months <= 1 THEN Label("%dmo ago", 1)
                 ELSE Label("%dmo ago", months)
    ELSE LET years == (d + 182 * Day) \div (365 * Day)
         IN IF years <= 1 THEN Label("%dy ago", 1)
            ELSE Label("%dy ago", years)

\* humanizeTime(t), d being time.Since(t) in whole seconds: int(d.Minutes()),
\* int(d.Hours()) and int(d.Hours()/24...) truncate, and on whole seconds
\* the float64 quotients truncate to the integer quotients.
humanizeTime(d) ==
    IF d < Minute THEN Label("just now", 0)
    ELSE IF d < Hour THEN Label("%dm ago", d \div Minute)
    ELSE IF d < Day THEN Label("%dh ago", d \div Hour)
    ELSE IF d < 30 * Day THEN Label("%dd ago", (d \div Hour) \div 24)
    ELSE IF d < 365 * Day
         THEN LET months == d \div (Hour * 24 * 30)
              IN IF months <= 1 THEN Label("%dmo ago", 1)
                 ELSE Label("%dmo ago", months)
    ELSE LET years == d \div (Hour * 24 * 365)
         IN IF years <= 1 THEN Label("%dy ago", 1)
            ELSE Label("%dy ago", years)

\* ---------------------------------------------------------- Session State

\* A status line: a format of tui.go and the branch name it is filled with.
Status(text, name) == [text |-> text, name |-> name]

\* The -n flag of the run (main.go: limit, 10 by default).
limit == 1

\* The line a user types at the search> prompt: "a".
Lines == {<<3>>}

\* Case folding and normalisation of one code point: "A" -> "a", "B" -> "b".
Fold(c) == IF c <= 2 THEN c + 2 ELSE c

FoldAll(str) == [i \in 1..Len(str) |-> Fold(str[i])]

\* fuzzysearch's match on transformed strings: every character of source
\* is found in target, each after the previous one.
RECURSIVE matchTransformed(_, _)
matchTransformed(source, tgt) ==
    IF Len(tgt) - Len(source) < 0 THEN FALSE
    ELSE IF source = <<>> THEN TRUE
    ELSE LET at == {i \in 1..Len(tgt) : tgt[i] = Head(source)}
         IN IF at = {} THEN FALSE
            ELSE LET i == CHOOSE k \in at : \A j \in at : k <= j
                 IN matchTransformed(Tail(source), SubSeq(tgt, i + 1, Len(tgt)))

\* fuzzy.FindNormalizedFold(source, targets): the targets that match, in the
\* order of targets.
RECURSIVE FindNormalizedFold(_, _)
FindNormalizedFold(source, targets) ==
    IF targets = <<>> THEN <<>>
    ELSE (IF matchTransformed(FoldAll(source), FoldAll(Head(targets)))
          THEN <<Head(targets)>> ELSE <<>>)
         \o FindNormalizedFold(source, Tail(targets))

\* nameToBranch[n]: the last Branch of brs named n.
nameToBranch(brs, n) ==
    brs[CHOOSE i \in 1..Len(brs) :
            /\ brs[i].Name = n
            /\ \A j \in (i + 1)..Len(brs) : brs[j].Name # n]

\* A mutant of SortLess: the direction is ignored.
SortLessAscending(by, desc) == IF by = "name" THEN "name<" ELSE "before"

\* The less function applySortFilter sorts with.
SortLess(by, desc) ==
    IF by = "name" THEN (IF desc THEN "name>" ELSE "name<")
    ELSE (IF desc THEN "after" ELSE "before")

\* A mutant of ClampCursor: the cursor is left where it was.
NoClampCursor(cur, n) == cur

\* The cursor after the two clamps that end applySortFilter.
ClampCursor(cur, n) ==
    LET c == IF cur >= n THEN n - 1 ELSE cur
    IN IF c < 0 THEN 0 ELSE c

\* A mutant of applySortFilter: the search text is not looked at.
applySortFilterNoFilter(brs, srch, by, desc, cur) ==
    LET f == SliceStable(brs, SortLess(by, desc))
    IN [filtered |-> f, cursor |-> ClampCursor(cur, Len(f))]

\* applySortFilter: the new filtered and cursor.
applySortFilter(brs, srch, by, desc, cur) ==
    LET names == [i \in 1..Len(brs) |-> brs[i].Name]
        matches == FindNormalizedFold(srch, names)
        f == IF srch = <<>>
             THEN SliceStable(brs, SortLess(by, desc))
             ELSE [i \in 1..Len(matches) |-> nameToBranch(brs, matches[i])]
    IN [filtered |-> f, cursor |-> ClampCursor(cur, Len(f))]

\* initialModel(branches).
initialModel(brs) ==
    LET a == applySortFilter(brs, <<>>, "time", TRUE, 0)
    IN [branches |-> brs, filtered |-> a.filtered, cursor |-> a.cursor,
        search |-> <<>>, status |-> Status("", <<>>), sortBy |-> "time",
        sortDesc |-> TRUE, confirming |-> FALSE, action |-> ""]

\* main: branches[:limit] when there are more than limit.
Truncate(brs) == IF Len(brs) > limit THEN SubSeq(brs, 1, limit) ELSE brs

\* ------------------------------------------------------------------ Init

\* The branches of the repository a session starts in: "ab" and "Ba".
SessionNames == {<<3, 4>>, <<2, 3>>}

\* The repository a session starts in: "ab" committed last and tracking
\* origin/b, which was never fetched; "Ba" committed first.
StartHeads ==
    [n \in SessionNames |->
        IF n = <<3, 4>>
        THEN [objectname |-> MaxTime, committerdate |-> MaxTime, reflog |-> 0,
              upstream |-> UpstreamFull]
        ELSE [objectname |-> 1, committerdate |-> 1, reflog |-> 0,
              upstream |-> NoUpstream]]

\* Init and tick of the bubbletea model: one tick and the help status are in
\* flight when the program starts.
InitCmds == [tick |-> 1, help |-> 1, readLine |-> 0, applied |-> 0]

Init ==
    /\ heads = StartHeads
    /\ HEAD \in SessionNames \cup {NoBranch}
    /\ remotes = NoRemotes
    /\ LET m == initialModel(Truncate(getRecentBranches(heads, HEAD, remotes)))
       IN /\ branches = m.branches
          /\ filtered = m.filtered
          /\ cursor = m.cursor
          /\ search = m.search
          /\ status = m.status
          /\ sortBy = m.sortBy
          /\ sortDesc = m.sortDesc
          /\ confirming = m.confirming
          /\ action = m.action
    /\ running = TRUE
    /\ cmds = InitCmds
    /\ target = <<>>
    /\ calls = <<>>
    /\ since = 0
    /\ label = NoLabel

\* ------------------------------------------------- Update: keys, no git

\* The keys the confirmation switch takes, when confirming.
YesKeys == {"y", "Y"}
NoKeys == {"n", "N", "esc"}

\* A key reaches the main switch unless the confirmation switch returned.
MainSwitch(s) == running /\ (confirming => s \notin YesKeys \cup NoKeys)

\* A mutant of ConfirmNo: the pending action is kept.
ConfirmNoKeepsAction ==
    /\ running /\ confirming
    /\ status' = Status("cancelled", <<>>)
    /\ confirming' = FALSE
    /\ calls' = <<>>
    /\ UNCHANGED <<gitVars, branches, filtered, cursor, search, sortBy,
                   sortDesc, action, running, cmds, target, ageVars>>

\* case "n", "N", "esc" while confirming.
ConfirmNo ==
    /\ running /\ confirming
    /\ status' = Status("cancelled", <<>>)
    /\ confirming' = FALSE
    /\ action' = ""
    /\ calls' = <<>>
    /\ UNCHANGED <<gitVars, branches, filtered, cursor, search, sortBy,
                   sortDesc, running, cmds, target>>
    /\ UNCHANGED ageVars

\* case "ctrl+c", "q": tea.Quit.
Quit ==
    /\ MainSwitch("q")
    /\ running' = FALSE
    /\ calls' = <<>>
    /\ UNCHANGED <<gitVars, modelVars, cmds, target>>
    /\ UNCHANGED ageVars

\* case "up", "k".
Up ==
    /\ MainSwitch("up")
    /\ cursor' = IF cursor > 0 THEN cursor - 1 ELSE cursor
    /\ calls' = <<>>
    /\ UNCHANGED <<gitVars, branches, filtered, search, status, sortBy,
                   sortDesc, confirming, action, running, cmds, target>>
    /\ UNCHANGED ageVars

\* case "down", "j".
Down ==
    /\ MainSwitch("down")
    /\ cursor' = IF cursor < Len(filtered) - 1 THEN cursor + 1 ELSE cursor
    /\ calls' = <<>>
    /\ UNCHANGED <<gitVars, branches, filtered, search, status, sortBy,
                   sortDesc, confirming, action, running, cmds, target>>
    /\ UNCHANGED ageVars

\* case "home", "g".
Home ==
    /\ MainSwitch("home")
    /\ cursor' = 0
    /\ calls' = <<>>
    /\ UNCHANGED <<gitVars, branches, filtered, search, status, sortBy,
                   sortDesc, confirming, action, running, cmds, target>>
    /\ UNCHANGED ageVars

\* case "end", "G".
End ==
    /\ MainSwitch("end")
    /\ cursor' = IF Len(filtered) > 0 THEN Len(filtered) - 1 ELSE cursor
    /\ calls' = <<>>
    /\ UNCHANGED <<gitVars, branches, filtered, search, status, sortBy,
                   sortDesc, confirming, action, running, cmds, target>>
    /\ UNCHANGED ageVars

\* case "/": the status is set and a readLine command is returned, holding a
\* pointer to the search field of Update's own copy of the model. The model
\* returned to the program is another copy: its search is untouched.
\* The model follows one search prompt at a time.
BeginSearch ==
    /\ MainSwitch("/")
    /\ cmds.readLine = 0 /\ cmds.applied = 0
    /\ status' = Status("Search: type to filter, press Enter to apply, Esc to clear", <<>>)
    /\ cmds' = [cmds EXCEPT !.readLine = @ + 1]
    /\ target' = search
    /\ calls' = <<>>
    /\ UNCHANGED <<gitVars, branches, filtered, cursor, search, sortBy,
                   sortDesc, confirming, action, running>>
    /\ UNCHANGED ageVars

\* The readLine command, run by the program outside Update: it scans a line,
\* stores it through its pointer and returns statusMsg("filter applied").
readLine ==
    /\ running /\ cmds.readLine > 0
    /\ \E s \in Lines : target' = s
    /\ cmds' = [cmds EXCEPT !.readLine = @ - 1, !.applied = @ + 1]
    /\ UNCHANGED <<gitVars, modelVars, running, calls>>
    /\ UNCHANGED ageVars

\* case "esc", not confirming.
ClearSearch ==
    /\ MainSwitch("esc")
    /\ LET a == applySortFilter(branches, <<>>, sortBy, sortDesc, cursor)
       IN /\ search' = <<>>
          /\ filtered' = a.filtered
          /\ cursor' = a.cursor
    /\ calls' = <<>>
    /\ UNCHANGED <<gitVars, branches, status, sortBy, sortDesc, confirming,
                   action, running, cmds, target>>
    /\ UNCHANGED ageVars

\* The (sortBy, sortDesc) that case "s" sets.
CycleSortStep(by, desc) ==
    IF by = "time" THEN <<"name", FALSE>>
    ELSE IF by = "name" /\ ~desc THEN <<"time", FALSE>>
    ELSE IF by = "time" /\ ~desc THEN <<"name", TRUE>>
    ELSE <<"time", TRUE>>

\* case "s".
CycleSort ==
    /\ MainSwitch("s")
    /\ LET n == CycleSortStep(sortBy, sortDesc)
           a == applySortFilter(branches, search, n[1], n[2], cursor)
       IN /\ sortBy' = n[1]
          /\ sortDesc' = n[2]
          /\ filtered' = a.filtered
          /\ cursor' = a.cursor
    /\ calls' = <<>>
    /\ UNCHANGED <<gitVars, branches, search, status, confirming, action,
                   running, cmds, target>>
    /\ UNCHANGED ageVars

\* Any key no case names, such as "a": nothing changes.
OtherKey ==
    /\ MainSwitch("a")
    /\ calls' = <<>>
    /\ UNCHANGED <<gitVars, modelVars, running, cmds, target>>
    /\ UNCHANGED ageVars

\* case tickMsg: the next tick is returned.
Tick ==
    /\ running /\ cmds.tick > 0
    /\ cmds' = [cmds EXCEPT !.tick = @ - 1 + 1]
    /\ calls' = <<>>
    /\ UNCHANGED <<gitVars, modelVars, running, target>>
    /\ UNCHANGED ageVars

\* case statusMsg, for the help line that Init sent.
HelpStatus ==
    /\ running /\ cmds.help > 0
    /\ status' = Status("j/k move / search s sort r refresh f fetch enter checkout x delete m merge q quit", <<>>)
    /\ cmds' = [cmds EXCEPT !.help = @ - 1]
    /\ calls' = <<>>
    /\ UNCHANGED <<gitVars, branches, filtered, cursor, search, sortBy,
                   sortDesc, confirming, action, running, target>>
    /\ UNCHANGED ageVars

\* case statusMsg, for the message a readLine command returned.
FilterApplied ==
    /\ running /\ cmds.applied > 0
    /\ status' = Status("filter applied", <<>>)
    /\ cmds' = [cmds EXCEPT !.applied = @ - 1]
    /\ target' = <<>>
    /\ calls' = <<>>
    /\ UNCHANGED <<gitVars, branches, filtered, cursor, search, sortBy,
                   sortDesc, confirming, action, running>>
    /\ UNCHANGED ageVars

\* ------------------------------------------------ Update: keys that run git

\* The record of one run of getRecentBranches inside Update; rerr: one of
\* its git commands failed or printed a date that does not parse.
Ranked(rerr) == Call("for-each-ref", <<>>, ~rerr)

ValidCursor == cursor >= 0 /\ cursor < Len(filtered)

\* case "enter": git checkout of the branch under the cursor, run inside
\* Update; only the status changes.
Checkout ==
    /\ MainSwitch("enter")
    /\ \E r \in BOOLEAN :
        IF ValidCursor
        THEN LET b == filtered[cursor + 1]
                 g == gitCheckoutBranch(heads, HEAD, b.Name, r)
             IN /\ HEAD' = g.HEAD
                /\ calls' = g.calls
                /\ status' = IF g.err THEN Status("checkout failed: %v", <<>>)
                             ELSE Status("checked out %s", b.Name)
        ELSE UNCHANGED <<HEAD, status>> /\ calls' = <<>>
    /\ UNCHANGED <<heads, remotes, branches, filtered, cursor, search, sortBy,
                   sortDesc, confirming, action, running, cmds, target>>
    /\ UNCHANGED ageVars

\* case "x", "delete": the confirmation is opened; the model keeps the
\* action, and no target.
RequestDelete ==
    /\ MainSwitch("x")
    /\ IF ValidCursor
       THEN /\ confirming' = TRUE
            /\ action' = "delete"
            /\ status' = Status("delete %s? y/N", filtered[cursor + 1].Name)
       ELSE UNCHANGED <<confirming, action, status>>
    /\ calls' = <<>>
    /\ UNCHANGED <<gitVars, branches, filtered, cursor, search, sortBy,
                   sortDesc, running, cmds, target>>
    /\ UNCHANGED ageVars

\* case "m".
RequestMerge ==
    /\ MainSwitch("m")
    /\ IF ValidCursor
       THEN /\ confirming' = TRUE
            /\ action' = "merge"
            /\ status' = Status("merge %s into current? y/N", filtered[cursor + 1].Name)
       ELSE UNCHANGED <<confirming, action, status>>
    /\ calls' = <<>>
    /\ UNCHANGED <<gitVars, branches, filtered, cursor, search, sortBy,
                   sortDesc, running, cmds, target>>
    /\ UNCHANGED ageVars

\* A mutant of Refresh: the result is assigned before the error is looked
\* at, so a failed ranking empties the list.
RefreshAssignsFirst ==
    /\ MainSwitch("r")
    /\ \E rerr \in BOOLEAN :
        LET brs == IF rerr THEN <<>>
                   ELSE getRecentBranches(heads, HEAD, remotes)
            a == applySortFilter(brs, search, sortBy, sortDesc, cursor)
        IN /\ calls' = <<Ranked(rerr)>>
           /\ branches' = brs
           /\ filtered' = a.filtered
           /\ cursor' = a.cursor
           /\ status' = IF rerr THEN Status("refresh failed: %v", <<>>)
                        ELSE Status("refreshed", <<>>)
    /\ UNCHANGED <<gitVars, search, sortBy, sortDesc, confirming, action,
                   running, cmds, target, ageVars>>

\* case "r": getRecentBranches inside Update; on success the whole result
\* replaces branches.
Refresh ==
    /\ MainSwitch("r")
    /\ \E rerr \in BOOLEAN :
        LET brs == getRecentBranches(heads, HEAD, remotes)
            a == applySortFilter(brs, search, sortBy, sortDesc, cursor)
        IN /\ calls' = <<Ranked(rerr)>>
           /\ IF rerr
              THEN /\ status' = Status("refresh failed: %v", <<>>)
                   /\ UNCHANGED <<branches, filtered, cursor>>
              ELSE /\ branches' = brs
                   /\ filtered' = a.filtered
                   /\ cursor' = a.cursor
                   /\ status' = Status("refreshed", <<>>)
    /\ UNCHANGED <<gitVars, search, sortBy, sortDesc, confirming, action,
                   running, cmds, target>>
    /\ UNCHANGED ageVars

\* A mutant of Fetch: a failed git fetch ends the event with a failure
\* status, the ranking not run.
FetchStopsOnError ==
    /\ MainSwitch("f")
    /\ \E fok, rerr \in BOOLEAN :
        LET fetched == IF fok THEN [r \in {UpstreamShort} |-> MaxTime]
                       ELSE remotes
            brs == getRecentBranches(heads, HEAD, fetched)
            a == applySortFilter(brs, search, sortBy, sortDesc, cursor)
        IN /\ remotes' = fetched
           /\ calls' = IF fok THEN <<Call("fetch", <<>>, fok), Ranked(rerr)>>
                       ELSE <<Call("fetch", <<>>, fok)>>
           /\ IF rerr \/ ~fok
              THEN /\ status' = Status("fetch failed: %v", <<>>)
                   /\ UNCHANGED <<branches, filtered, cursor>>
              ELSE /\ branches' = brs
                   /\ filtered' = a.filtered
                   /\ cursor' = a.cursor
                   /\ status' = Status("fetched", <<>>)
    /\ UNCHANGED <<heads, HEAD, search, sortBy, sortDesc, confirming, action,
                   running, cmds, target, ageVars>>

\* case "f": git fetch, its error dropped, then as case "r". A fetch that
\* succeeds brings origin/b, its tip dated now.
Fetch ==
    /\ MainSwitch("f")
    /\ \E fok, rerr \in BOOLEAN :
        LET fetched == IF fok THEN [r \in {UpstreamShort} |-> MaxTime]
                       ELSE remotes
            brs == getRecentBranches(heads, HEAD, fetched)
            a == applySortFilter(brs, search, sortBy, sortDesc, cursor)
        IN /\ remotes' = fetched
           /\ calls' = <<Call("fetch", <<>>, fok), Ranked(rerr)>>
           /\ IF rerr
              THEN /\ status' = Status("fetch failed: %v", <<>>)
                   /\ UNCHANGED <<branches, filtered, cursor>>
              ELSE /\ branches' = brs
                   /\ filtered' = a.filtered
                   /\ cursor' = a.cursor
                   /\ status' = Status("fetched", <<>>)
    /\ UNCHANGED <<heads, HEAD, search, sortBy, sortDesc, confirming, action,
                   running, cmds, target>>
    /\ UNCHANGED ageVars

\* A mutant of Reloaded: the ranking is reloaded whether or not git failed.
ReloadedAlways(gerr, rerr, old, fresh) == IF rerr THEN old ELSE fresh

\* What the model holds after a confirmed action: the fresh ranking when the
\* git command and getRecentBranches both succeeded, what it held otherwise.
Reloaded(gerr, rerr, old, fresh) == IF gerr \/ rerr THEN old ELSE fresh

\* case "y", "Y" while confirming: the action is applied to the branch that
\* is under the cursor now, unless the snapshot marks it as current.
ConfirmYes ==
    /\ running /\ confirming
    /\ \E r1, r2, rerr \in BOOLEAN :
        LET b == filtered[cursor + 1]
            g == IF action = "delete"
                 THEN gitDeleteBranch(heads, HEAD, b.Name, r1, r2)
                 ELSE gitMergeIntoCurrent(heads, HEAD, b.Name, r1)
            brs == getRecentBranches(g.heads, HEAD, remotes)
            a == applySortFilter(brs, search, sortBy, sortDesc, cursor)
            old == [branches |-> branches, filtered |-> filtered,
                    cursor |-> cursor]
            fresh == [branches |-> brs, filtered |-> a.filtered,
                      cursor |-> a.cursor]
            kept == Reloaded(g.err, rerr, old, fresh)
        IN IF ~ValidCursor
           THEN /\ calls' = <<>>
                /\ UNCHANGED <<heads, branches, filtered, cursor, status>>
           ELSE IF b.IsCurrent
           THEN /\ status' = IF action = "delete"
                             THEN Status("cannot delete current branch", <<>>)
                             ELSE Status("already on this branch", <<>>)
                /\ calls' = <<>>
                /\ UNCHANGED <<heads, branches, filtered, cursor>>
           ELSE /\ status' =
                     IF action = "delete"
                     THEN (IF g.err THEN Status("delete failed: %v", <<>>)
                           ELSE Status("deleted %s", b.Name))
                     ELSE (IF g.err THEN Status("merge failed: %v", <<>>)
                           ELSE Status("merged %s into current", b.Name))
                /\ heads' = g.heads
                /\ calls' = IF g.err THEN g.calls
                            ELSE g.calls \o <<Ranked(rerr)>>
                /\ branches' = kept.branches
                /\ filtered' = kept.filtered
                /\ cursor' = kept.cursor
    /\ confirming' = FALSE
    /\ action' = ""
    /\ UNCHANGED <<HEAD, remotes, search, sortBy, sortDesc, running, cmds,
                   target>>
    /\ UNCHANGED ageVars

\* ------------------------------------------------------ the specification

Next ==
    \/ ConfirmYes
    \/ ConfirmNo
    \/ Quit
    \/ Up
    \/ Down
    \/ Home
    \/ End
    \/ BeginSearch
    \/ readLine
    \/ ClearSearch
    \/ Checkout
    \/ RequestDelete
    \/ RequestMerge
    \/ Refresh
    \/ Fetch
    \/ CycleSort
    \/ OtherKey
    \/ Tick
    \/ HelpStatus
    \/ FilterApplied

Spec == Init /\ [][Next]_vars

\* ------------------------------------- the ranking alone, over any repository

\* The forms of %(upstream) each branch may have in a ranked repository.
RankUpstreams(n) ==
    IF n = <<3, 4>> THEN {NoUpstream, UpstreamFull}
    ELSE IF n = <<2, 3>> THEN {NoUpstream, UpstreamShort}
    ELSE {NoUpstream}

\* Any repository of the three branches: any committer dates, any reflog
\* times or none, upstreams set or not, origin/b fetched or not.
InitRank ==
    /\ \E d \in [BranchNames -> 1..MaxTime], r \in [BranchNames -> 0..MaxTime],
          u \in [BranchNames -> UpstreamRaws] :
        /\ \A n \in BranchNames : u[n] \in RankUpstreams(n)
        /\ heads = [n \in BranchNames |->
                       [objectname |-> d[n], committerdate |-> d[n],
                        reflog |-> r[n], upstream |-> u[n]]]
    /\ HEAD \in {NoBranch, <<3, 4>>}
    /\ remotes \in RemoteStates
    /\ branches = <<>>
    /\ filtered = <<>>
    /\ cursor = 0
    /\ search = <<>>
    /\ status = Status("", <<>>)
    /\ sortBy = "time"
    /\ sortDesc = TRUE
    /\ confirming = FALSE
    /\ action = ""
    /\ running = TRUE
    /\ cmds = [tick |-> 0, help |-> 0, readLine |-> 0, applied |-> 0]
    /\ target = <<>>
    /\ calls = <<>>
    /\ since = 0
    /\ label = NoLabel

\* main: branches, err := getRecentBranches().
Rank ==
    /\ branches' = getRecentBranches(heads, HEAD, remotes)
    /\ UNCHANGED <<gitVars, filtered, cursor, search, status, sortBy, sortDesc,
                   confirming, action, running, cmds, target, calls>>
    /\ UNCHANGED ageVars

SpecRank == InitRank /\ [][Rank]_vars

\* ------------------------------- Update on a model that holds a search text

\* The search texts a model may hold: none, "a", "b", "A", "ba", "bb".
SearchTexts == {<<>>, <<3>>, <<4>>, <<1>>, <<4, 3>>, <<4, 4>>}

\* A model built by initialModel over the ranking of any repository of the
\* three branches, its search field set and its view computed for it.
InitFilter ==
    /\ \E d \in [BranchNames -> 1..MaxTime] :
          heads = [n \in BranchNames |->
                      [objectname |-> d[n], committerdate |-> d[n],
                       reflog |-> 0, upstream |-> NoUpstream]]
    /\ HEAD = NoBranch
    /\ remotes = NoRemotes
    /\ branches = getRecentBranches(heads, HEAD, remotes)
    /\ search \in SearchTexts
    /\ LET a == applySortFilter(branches, search, "time", TRUE, 0)
       IN filtered = a.filtered /\ cursor = a.cursor
    /\ status = Status("", <<>>)
    /\ sortBy = "time"
    /\ sortDesc = TRUE
    /\ confirming = FALSE
    /\ action = ""
    /\ running = TRUE
    /\ cmds = [tick |-> 0, help |-> 0, readLine |-> 0, applied |-> 0]
    /\ target = <<>>
    /\ calls = <<>>
    /\ since = 0
    /\ label = NoLabel

\* The keys of Update that read or write search, sort and view.
NextFilter ==
    \/ CycleSort
    \/ ClearSearch
    \/ Up
    \/ Down
    \/ Home
    \/ End
    \/ Refresh

SpecFilter == InitFilter /\ [][NextFilter]_vars

\* -------------------------------------------------- the periodic tick alone

\* Spec's Tick takes the end of the timer and the processing of its tickMsg
\* as one step. Here they are two steps, so that a tick is a change of
\* state: cmds.tick counts the timers that run, cmds.ticked the tickMsg that
\* wait for Update.
InitTick ==
    /\ heads = StartHeads
    /\ HEAD \in SessionNames \cup {NoBranch}
    /\ remotes = NoRemotes
    /\ LET m == initialModel(Truncate(getRecentBranches(heads, HEAD, remotes)))
       IN /\ branches = m.branches
          /\ filtered = m.filtered
          /\ cursor = m.cursor
          /\ search = m.search
          /\ status = m.status
          /\ sortBy = m.sortBy
          /\ sortDesc = m.sortDesc
          /\ confirming = m.confirming
          /\ action = m.action
    /\ running = TRUE
    /\ cmds = [tick |-> 1, ticked |-> 0, help |-> 1, readLine |-> 0,
               applied |-> 0]
    /\ target = <<>>
    /\ calls = <<>>
    /\ since = 0
    /\ label = NoLabel

\* The command tick(): its timer of one second ends, outside Update, and
\* its tickMsg is handed to the program.
tick ==
    /\ running /\ cmds.tick > 0
    /\ cmds' = [cmds EXCEPT !.tick = @ - 1, !.ticked = @ + 1]
    /\ UNCHANGED <<gitVars, modelVars, running, target, calls, ageVars>>

\* A mutant of TickMsg: no next tick is returned.
TickMsgReturnsNil ==
    /\ running /\ cmds.ticked > 0
    /\ cmds' = [cmds EXCEPT !.ticked = @ - 1]
    /\ calls' = <<>>
    /\ UNCHANGED <<gitVars, modelVars, running, target, ageVars>>

\* case tickMsg of Update: return m, tea.Batch(tick()).
TickMsg ==
    /\ running /\ cmds.ticked > 0
    /\ cmds' = [cmds EXCEPT !.ticked = @ - 1, !.tick = @ + 1]
    /\ calls' = <<>>
    /\ UNCHANGED <<gitVars, modelVars, running, target, ageVars>>

\* The tick among the events that run git, the help line and quit.
NextTick ==
    \/ tick
    \/ TickMsg
    \/ HelpStatus
    \/ Checkout
    \/ Refresh
    \/ Fetch
    \/ Quit

\* The runtime ends every timer after its second and hands every message to
\* Update in turn.
SpecTick ==
    InitTick /\ [][NextTick]_vars /\ WF_vars(tick) /\ WF_vars(TickMsg)

\* ------------------------------------------- the rendering of ages alone

\* The lower ends of the buckets of humanizeTime, in seconds.
Units == {Minute, Hour, Day, 30 * Day, 365 * Day}

\* Whole-second ages: 0, 45 s, 90 min, and one second before, at and after
\* each of the first MaxCount multiples of each unit.
Ages ==
    {0, 45, 90 * Minute}
    \cup {k * u + e : k \in 1..MaxCount, u \in Units, e \in {-1, 0, 1}}

\* Any age, nothing rendered yet.
InitAge ==
    /\ since \in Ages
    /\ label = NoLabel
    /\ heads = StartHeads
    /\ HEAD = NoBranch
    /\ remotes = NoRemotes
    /\ branches = <<>>
    /\ filtered = <<>>
    /\ cursor = 0
    /\ search = <<>>
    /\ status = Status("", <<>>)
    /\ sortBy = "time"
    /\ sortDesc = TRUE
    /\ confirming = FALSE
    /\ action = ""
    /\ running = TRUE
    /\ cmds = [tick |-> 0, help |-> 0, readLine |-> 0, applied |-> 0]
    /\ target = <<>>
    /\ calls = <<>>

\* main, View: humanizeTime(b.CommitTime) for one row.
Humanize ==
    /\ label = NoLabel
    /\ label' = humanizeTime(since)
    /\ UNCHANGED <<gitVars, modelVars, running, cmds, target, calls, since>>

SpecAge == InitAge /\ [][Humanize]_vars

\* ------------------------------------------------------------------ claims

IsDelete(c) == c.op \in {"branch -d", "branch -D"}

\* C1: a confirmed delete never runs git branch -d or -D on the branch that
\* is checked out at that moment.
C1_NeverDeletesCheckedOut ==
    \A i \in DOMAIN calls : IsDelete(calls[i]) => calls[i].name # HEAD

PromptTexts == {"delete %s? y/N", "merge %s into current? y/N"}

\* C2: when the prompt of a requested delete or merge names branch T and yes
\* is confirmed, the git command of the action runs on exactly T.
C2_ConfirmActsOnRequestedTarget ==
    [][(status.text \in PromptTexts /\ calls' # <<>> /\ ConfirmYes)
          => calls'[1].name = status.name]_vars

\* The cycle as the claim gives it.
NextInCycle(by, desc) ==
    CASE by = "time" /\ desc  -> <<"name", FALSE>>
      [] by = "name" /\ ~desc -> <<"time", FALSE>>
      [] by = "time" /\ ~desc -> <<"name", TRUE>>
      [] by = "name" /\ desc  -> <<"time", TRUE>>

\* C3: every cycle-sort step takes (sortBy, sortDesc) to the next state of
\* time-desc -> name-asc -> time-asc -> name-desc -> time-desc.
C3_SortIsFourCycle ==
    [][CycleSort => <<sortBy', sortDesc'>> = NextInCycle(sortBy, sortDesc)]_vars

\* C4: 0 <= cursor < len(view) whenever the view is non-empty, and
\* cursor = 0 when it is empty.
C4_CursorInRange ==
    IF filtered = <<>> THEN cursor = 0
    ELSE 0 <= cursor /\ cursor < Len(filtered)

\* C4 witness: a confirmed delete emptied the view.
C4_Witness ==
    /\ status.text = "deleted %s"
    /\ filtered = <<>>
    /\ calls # <<>> /\ calls[Len(calls)] = Ranked(FALSE)

\* C5: once the typed line q is committed and its completion is processed,
\* the model the loop holds has search = q and the view filtered for q.
C5_CommittedSearchApplied ==
    [][FilterApplied =>
          /\ search' = target
          /\ filtered' = applySortFilter(branches, target, sortBy, sortDesc,
                                         cursor).filtered]_vars

\* The key a view is ordered by, and whether a comes strictly before b in it.
Before(by, desc, a, b) ==
    IF by = "name"
    THEN (IF desc THEN StrLess(b.Name, a.Name) ELSE StrLess(a.Name, b.Name))
    ELSE (IF desc THEN a.CommitTime > b.CommitTime
          ELSE a.CommitTime < b.CommitTime)

PosIn(seq, x) == CHOOSE k \in 1..Len(seq) : seq[k] = x

\* view holds the records of full, each once, in the order of the sort key
\* and direction, records that tie in the order they have in full.
StablyOrdered(view, full, by, desc) ==
    /\ Len(view) = Len(full)
    /\ {view[i] : i \in DOMAIN view} = {full[i] : i \in DOMAIN full}
    /\ \A i, j \in DOMAIN view : i < j =>
          /\ ~Before(by, desc, view[j], view[i])
          /\ ~Before(by, desc, view[i], view[j])
                => PosIn(full, view[i]) < PosIn(full, view[j])

\* The names that contain the characters of q in order, case folded.
RECURSIVE IsSubsequence(_, _)
IsSubsequence(q, name) ==
    IF q = <<>> THEN TRUE
    ELSE IF name = <<>> THEN FALSE
    ELSE IF Fold(Head(q)) = Fold(Head(name))
         THEN IsSubsequence(Tail(q), Tail(name))
         ELSE IsSubsequence(q, Tail(name))

\* view holds the records of full that match q, and only those.
MatchesOf(view, full, q) ==
    {view[i] : i \in DOMAIN view} =
        {full[i] : i \in {k \in DOMAIN full : IsSubsequence(q, full[k].Name)}}

\* Search texts to recompute the view for: "a", "b", "A", "ba", "bb".
Queries == {<<3>>, <<4>>, <<1>>, <<4, 3>>, <<4, 4>>}

\* C6: in every state the view is what (full, searchText, sortKey,
\* sortDescending) determine: full stably ordered by the active sort when
\* the search text is empty, the matching records of full otherwise; and
\* applySortFilter computes the matching records for any search text.
C6_ViewIsRecomputation ==
    /\ IF search = <<>>
       THEN StablyOrdered(filtered, branches, sortBy, sortDesc)
       ELSE MatchesOf(filtered, branches, search)
    /\ \A q \in Queries :
          MatchesOf(applySortFilter(branches, q, sortBy, sortDesc,
                                    cursor).filtered, branches, q)

\* C6 witness: a view of two branches ordered by name, unlike the ranking.
C6_Witness ==
    /\ sortBy = "name"
    /\ Len(filtered) = 2
    /\ filtered # branches

\* C7: no git command runs inside the call of Update that processes an
\* input event.
C7_GatewayOffTheLoop == calls = <<>>

\* The candidates of a branch that are present, and the latest of a set.
Candidates(h, rts) ==
    {h.committerdate}
    \cup (IF h.reflog # 0 THEN {h.reflog} ELSE {})
    \cup (IF h.upstream # NoUpstream /\ UpstreamShort \in DOMAIN rts
          THEN {rts[UpstreamShort]} ELSE {})

Latest(S) == CHOOSE m \in S : \A x \in S : x <= m

\* C8: the ranking lists every local branch, each with the latest of its
\* present candidates as activity time.
C8_ActivityIsLatestCandidate ==
    branches # <<>> =>
        /\ {branches[i].Name : i \in DOMAIN branches} = DOMAIN heads
        /\ \A i \in DOMAIN branches :
              branches[i].CommitTime =
                  Latest(Candidates(heads[branches[i].Name], remotes))

\* C8 witness: one branch whose three candidates are present and differ, the
\* upstream tip the latest, and one that has the tip commit time only.
C8_Witness ==
    \E i, j \in DOMAIN branches :
        LET h == heads[branches[i].Name]
            k == heads[branches[j].Name]
        IN /\ h.upstream # NoUpstream /\ UpstreamShort \in DOMAIN remotes
           /\ h.committerdate < h.reflog /\ h.reflog < remotes[UpstreamShort]
           /\ branches[i].CommitTime = remotes[UpstreamShort]
           /\ k.reflog = 0 /\ k.upstream = NoUpstream
           /\ branches[j].CommitTime = k.committerdate

\* C9: the ranking is a permutation of git's enumeration in non-increasing
\* activity time, branches that tie in the order git listed them.
C9_RankingStablePermutation ==
    branches # <<>> =>
        LET lines == ForEachRef(heads)
        IN /\ Len(branches) = Len(lines)
           /\ {branches[i].Name : i \in DOMAIN branches} =
                  {lines[k] : k \in DOMAIN lines}
           /\ \A i, j \in DOMAIN branches : i < j =>
                 /\ branches[i].CommitTime >= branches[j].CommitTime
                 /\ branches[i].CommitTime = branches[j].CommitTime
                       => PosIn(lines, branches[i].Name)
                              < PosIn(lines, branches[j].Name)

\* C9 witness: a ranking that reorders git's enumeration and holds a tie.
C9_Witness ==
    /\ branches # <<>>
    /\ [i \in DOMAIN branches |-> branches[i].Name] # ForEachRef(heads)
    /\ \E i \in DOMAIN branches : i < Len(branches)
          /\ branches[i].CommitTime = branches[i + 1].CommitTime

\* The last git command of a confirmed action failed: the merge, or the
\* forced delete after the safe one.
FailedAtGateway(c) ==
    /\ c # <<>>
    /\ c[Len(c)].op \in {"merge", "branch -D"}
    /\ ~c[Len(c)].ok

FailureTexts == {"merge failed: %v", "delete failed: %v"}

\* C10: a confirmed merge or delete that fails at git leaves full and view as
\* they were and sets a failure status; a manual refresh that follows
\* replaces the snapshot with the fresh ranking all the same.
C10_FailedActionKeepsSnapshot ==
    [][/\ (FailedAtGateway(calls') /\ ConfirmYes)
            => /\ branches' = branches
               /\ filtered' = filtered
               /\ status'.text \in FailureTexts
       /\ (status.text \in FailureTexts /\ calls' = <<Ranked(FALSE)>> /\ Refresh)
            => /\ branches' = getRecentBranches(heads, HEAD, remotes)
               /\ StablyOrdered(filtered', branches', sortBy, sortDesc)
               /\ status'.text = "refreshed"]_vars

\* C10 witness: a merge has just failed where the snapshot is older than the
\* repository.
C10_Witness ==
    /\ status.text = "merge failed: %v"
    /\ FailedAtGateway(calls)
    /\ branches # getRecentBranches(heads, HEAD, remotes)

\* C11: with a run limit of N branches the session never holds more than N
\* branches, in full or in the view.
C11_NeverMoreThanLimit ==
    Len(branches) <= limit /\ Len(filtered) <= limit

SubsequenceOf(view, full) ==
    /\ \A i \in DOMAIN view : \E k \in DOMAIN full : full[k] = view[i]
    /\ \A i, j \in DOMAIN view :
          i < j => PosIn(full, view[i]) < PosIn(full, view[j])

\* C13: when the search text is non-empty the view is a subsequence of full
\* that holds exactly the records whose name contains the characters of the
\* search text in order, case folded, each once.
C13_ViewIsMatchingSubsequence ==
    search # <<>> =>
        /\ SubsequenceOf(filtered, branches)
        /\ MatchesOf(filtered, branches, search)

\* C13 witness: after a refresh the text "A" keeps "ab" and "Ba", by case
\* folding, and drops "b".
C13_Witness ==
    /\ search = <<1>>
    /\ status.text = "refreshed"
    /\ Len(branches) = 3
    /\ {filtered[i].Name : i \in DOMAIN filtered} = {<<3, 4>>, <<2, 3>>}

\* The format and the unit, in seconds, of the bucket an age falls in.
BucketOf(d) ==
    IF d < 60 THEN [text |-> "just now", unit |-> 0]
    ELSE IF d < 3600 THEN [text |-> "%dm ago", unit |-> 60]
    ELSE IF d < 86400 THEN [text |-> "%dh ago", unit |-> 3600]
    ELSE IF d < 2592000 THEN [text |-> "%dd ago", unit |-> 86400]
    ELSE IF d < 31536000 THEN [text |-> "%dmo ago", unit |-> 2592000]
    ELSE [text |-> "%dy ago", unit |-> 31536000]

\* C14: a rendered whole-second age has the format of its closed-open
\* bucket and the number of whole units it holds (none for "just now");
\* 45 s is "just now", 90 min "1h ago", 30 days "1mo ago", 365 days "1y ago".
C14_HumanizeBuckets ==
    label # NoLabel =>
        LET b == BucketOf(since)
        IN /\ label.text = b.text
           /\ b.unit = 0 => label.n = 0
           /\ b.unit # 0 => /\ label.n * b.unit <= since
                            /\ since < (label.n + 1) * b.unit
           /\ since = 45 => label = Label("just now", 0)
           /\ since = 5400 => label = Label("%dh ago", 1)
           /\ since = 2592000 => label = Label("%dmo ago", 1)
           /\ since = 31536000 => label = Label("%dy ago", 1)

\* C14 witness: 90 minutes rendered as "1h ago".
C14_Witness == since = 5400 /\ label = Label("%dh ago", 1)

\* C15: while a confirmation is pending, a step that is neither confirm-yes,
\* confirm-no nor quit (the confirmation is still pending after it) leaves
\* cursor, view, full, the sort setting and the pending action unchanged and
\* runs no git command.
C15_OtherEventsIgnoredWhileConfirming ==
    [][(confirming /\ confirming' /\ running')
          => /\ UNCHANGED <<cursor, filtered, branches, sortBy, sortDesc,
                            action>>
             /\ calls' = <<>> \/ UNCHANGED calls]_vars

SuccessTexts == {"deleted %s", "merged %s into current"}

\* C16: a confirmation that ends with the status of a successful delete or
\* merge holds the fresh ranking of the repository as full, and a branch
\* reported as deleted is in neither full nor the view.
C16_SuccessReplacesSnapshot ==
    [][(confirming /\ ~confirming' /\ status'.text \in SuccessTexts)
          => /\ branches' = getRecentBranches(heads', HEAD', remotes')
             /\ status'.text = "deleted %s" =>
                   /\ \A i \in DOMAIN branches' :
                         branches'[i].Name # status'.name
                   /\ \A i \in DOMAIN filtered' :
                         filtered'[i].Name # status'.name]_vars

\* C17: confirm-no runs no git command, leaves the repository, full, view,
\* cursor, search text and sort setting unchanged, discards the pending
\* action, ends the confirmation and sets the status "cancelled".
C17_CancelChangesNothing ==
    [][ConfirmNo
          => /\ calls' = <<>>
             /\ UNCHANGED <<heads, HEAD, remotes, branches, filtered, cursor,
                            search, sortBy, sortDesc>>
             /\ action' = ""
             /\ confirming' = FALSE
             /\ status' = Status("cancelled", <<>>)]_vars

\* C17 witness: a pending action has just been cancelled, in a session whose
\* list holds two branches.
C17_Witness ==
    /\ status.text = "cancelled"
    /\ ~confirming /\ action = ""
    /\ calls = <<>>
    /\ Len(branches) = 2

\* C18: the git commands of one event hold no command twice; a forced delete
\* is the second command, after a failed safe delete of the same branch; a
\* failed safe delete is followed by the forced one; and a confirmed delete
\* is reported as failed exactly when both failed.
C18_DeleteRetriedOnceForced ==
    /\ \A i, j \in DOMAIN calls : i # j => calls[i].op # calls[j].op
    /\ \A i \in DOMAIN calls :
          calls[i].op = "branch -D" =>
              /\ i = 2
              /\ calls[1] = Call("branch -d", calls[2].name, FALSE)
    /\ \A i \in DOMAIN calls :
          calls[i].op = "branch -d" =>
              /\ i = 1
              /\ ~calls[1].ok =>
                    Len(calls) >= 2 /\ calls[2].op = "branch -D"
              /\ status.text = "delete failed: %v"
                    <=> (~calls[1].ok /\ ~calls[2].ok)
              /\ status.text = "deleted %s"
                    <=> (calls[1].ok \/ calls[2].ok)

\* C18 witness: the safe delete failed, the forced one succeeded, and the
\* branch is reported as deleted.
C18_Witness ==
    /\ Len(calls) = 3
    /\ calls[1].op = "branch -d" /\ ~calls[1].ok
    /\ calls[2].op = "branch -D" /\ calls[2].ok
    /\ status.text = "deleted %s"

\* view is what full and the search text determine under the sort setting.
ViewOf(view, full, q, by, desc) ==
    IF q = <<>> THEN StablyOrdered(view, full, by, desc)
    ELSE SubsequenceOf(view, full) /\ MatchesOf(view, full, q)

\* The cursor c brought back into a view of n rows.
Reclamped(c, n) == IF n = 0 THEN 0 ELSE IF c >= n THEN n - 1 ELSE c

\* C19: a refresh outside a confirmation leaves the search text and the sort
\* setting unchanged; when the ranking succeeds full is the new ranking, the
\* view is recomputed from it and the cursor is re-clamped; when it fails
\* full, view and cursor are unchanged and the status reports the failure.
C19_RefreshFrame ==
    [][(~confirming /\ Len(calls') = 1 /\ Refresh)
          => /\ UNCHANGED <<search, sortBy, sortDesc>>
             /\ IF calls'[1].ok
                THEN /\ branches' = getRecentBranches(heads, HEAD, remotes)
                     /\ ViewOf(filtered', branches', search, sortBy, sortDesc)
                     /\ cursor' = Reclamped(cursor, Len(filtered'))
                     /\ status' = Status("refreshed", <<>>)
                ELSE /\ UNCHANGED <<branches, filtered, cursor>>
                     /\ status' = Status("refresh failed: %v", <<>>)]_vars

\* C19 witness: a refresh has just ranked a repository that lost a branch:
\* one branch is listed, the cursor on it.
C19_Witness ==
    /\ ~confirming
    /\ calls = <<Ranked(FALSE)>>
    /\ status.text = "refreshed"
    /\ Len(filtered) = 1 /\ cursor = 0
    /\ DOMAIN heads # SessionNames

\* C20: when the git fetch of a fetch-and-refresh fails, the ranking is run
\* all the same; if the ranking succeeds, full is the new ranking, the view
\* is recomputed, the cursor re-clamped and the status is "fetched", with no
\* failure shown; the remote times stay as they were.
C20_FetchFailureSwallowed ==
    [][(calls' # <<>> /\ calls'[1] = Call("fetch", <<>>, FALSE) /\ Fetch)
          => /\ Len(calls') = 2 /\ calls'[2].op = "for-each-ref"
             /\ UNCHANGED <<remotes, search, sortBy, sortDesc>>
             /\ IF calls'[2].ok
                THEN /\ branches' = getRecentBranches(heads, HEAD, remotes)
                     /\ ViewOf(filtered', branches', search, sortBy, sortDesc)
                     /\ cursor' = Reclamped(cursor, Len(filtered'))
                     /\ status' = Status("fetched", <<>>)
                ELSE UNCHANGED <<branches, filtered, cursor>>]_vars

\* C20 witness: the fetch failed, the ranking ran and replaced a list of one
\* branch by the two of the repository, and the status is "fetched".
C20_Witness ==
    /\ calls = <<Call("fetch", <<>>, FALSE), Ranked(FALSE)>>
    /\ status.text = "fetched"
    /\ Len(branches) = 2
    /\ remotes = NoRemotes

\* C21: a checkout event with the cursor on a row runs git checkout once, on
\* the branch of that row, and changes only the status, to the success or
\* the failure message; with no row under the cursor it runs nothing and
\* changes nothing.
C21_CheckoutChangesOnlyStatus ==
    [][Checkout
          => /\ UNCHANGED <<branches, filtered, cursor, search, sortBy,
                            sortDesc, confirming, action>>
             /\ IF filtered # <<>>
                THEN \E ok \in BOOLEAN :
                       /\ calls' = <<Call("checkout",
                                          filtered[cursor + 1].Name, ok)>>
                       /\ status' =
                            IF ok THEN Status("checked out %s",
                                              filtered[cursor + 1].Name)
                            ELSE Status("checkout failed: %v", <<>>)
                ELSE calls' = <<>> /\ UNCHANGED status]_vars

\* C21 witness: the second row of a view sorted by name has just been
\* checked out.
C21_Witness ==
    /\ status.text = "checked out %s"
    /\ calls = <<Call("checkout", status.name, TRUE)>>
    /\ HEAD = status.name
    /\ sortBy = "name" /\ cursor = 1
    /\ filtered[2].Name = status.name

\* C22: processing a tick changes neither the session state nor the
\* repository, runs no git command and returns one next tick; one tick is
\* pending at any time, as a running timer or as a message; and until quit
\* a timer ends and a tick is processed again and again.
C22_TickOnlyReschedules ==
    /\ [](cmds.tick + cmds.ticked = 1)
    /\ [][TickMsg => /\ UNCHANGED <<modelVars, gitVars>>
                     /\ calls' = <<>>
                     /\ cmds'.tick = cmds.tick + 1]_vars
    /\ [](running => <>(~running \/ cmds.ticked = 1))
    /\ [](running => <>(~running \/ cmds.tick = 1))

\* C22 witness: a tick was processed after a refresh: the git command of the
\* refresh is no longer the last event's, the status and the list of two
\* branches are the refresh's, and the next timer runs.
C22_Witness ==
    /\ running
    /\ cmds.tick = 1 /\ cmds.ticked = 0
    /\ calls = <<>>
    /\ status.text = "refreshed"
    /\ Len(branches) = 2

\* C23: every step that changes cursor, view, full, search text, sort
\* setting or mode while a notice is shown replaces the notice.
C23_StateChangeOverwritesStatus ==
    [][(/\ status.text # ""
        /\ <<cursor, filtered, branches, search, sortBy, sortDesc,
              confirming, action>>'
             # <<cursor, filtered, branches, search, sortBy, sortDesc,
                 confirming, action>>)
          => status' # status]_vars

====
